---------------------------- MODULE Spec2Model ----------------------------
(***************************************************************************)
(* A model of the MiDiMe backend (src/backend/audio_processing):           *)
(*   - drum_classifier.py : classify_drum_hit, classify_drum_pattern,      *)
(*                          get_drum_midi_pattern                          *)
(*   - onset_detector.py  : filter_weak_onsets                             *)
(*   - utils.py           : trim_audio, validate_audio_file                *)
(*   - audio_service.py   : process_audio_snippet                          *)
(*                                                                         *)
(* Four specifications share the module.  SpecClassifier, SpecOnset and    *)
(* SpecTrim call the functions of one source file on inputs drawn from     *)
(* bounded sets; Spec runs one invocation of process_audio_snippet stage   *)
(* by stage.  A specification leaves the variables of the others alone.    *)
(*                                                                         *)
(* Numbers.  Python floats are modelled by integers on a grid: an onset    *)
(* time is a number of 1/TimeDen seconds, a strength a number of           *)
(* 1/StrengthDen, a trim time a whole number of seconds.  Float rounding   *)
(* is not modelled.                                                        *)
(***************************************************************************)
EXTENDS Integers, Sequences, FiniteSets

VARIABLES
    \* ---- drum_classifier.py
    audio,              \* the drum audio file given as audio_path
    onset_times,        \* the onset list given by the caller
    classifier_call,    \* which function of the module was called
    classifier_raised,  \* the exception the call raised ("none": it returned)
    hit,                \* classify_drum_hit: [onset_sample, drum_type]
    drum_pattern,       \* classify_drum_pattern's return value
    midi_pattern,       \* get_drum_midi_pattern's return value
    \* ---- onset_detector.py
    onsets_with_strength, \* the list given to filter_weak_onsets
    min_strength,         \* its threshold
    onset_call,           \* which call was made
    onset_raised,         \* the exception the call raised
    filtered,             \* filter_weak_onsets' return value
    \* ---- onset_detector.py (detect_onsets, analyze_drum_pattern)
    analysis_env,       \* the file and what librosa does with it
    analysis_args,      \* filter_weak and min_strength of the caller
    analysis_call,      \* which function was called
    analysis_result,    \* the exception raised and the value returned
    \* ---- onset_detector.py (the detectors on a loaded file)
    peak_args,          \* the onset envelope of the file and the arguments
    peak_call,          \* which detector was called
    peak_result,        \* the list it returned
    \* ---- utils.py (trim_audio called directly)
    trim_args,          \* [source, start, end, fault]
    trim_call,          \* "none" | "trim_audio"
    trim_result,        \* what trim_audio did
    \* ---- stem_separator.py (separate_stems called directly)
    stems_args,         \* [audio_exists, run]
    stems_call,         \* "none" | "separate_stems"
    stems_result,       \* what separate_stems did
    \* ---- audio_service.py (one invocation of process_audio_snippet)
    request,            \* the arguments of the invocation
    pc,                 \* the position of the invocation
    disk,               \* the artifact files that exist
    temp_files,         \* the list of tracked temporary files
    stem_paths,         \* the stem mapping built so far
    metadata,           \* the metadata built so far
    stages,             \* the stages invoked so far, in order
    faults,             \* the failures of the environment so far
    result,             \* the AudioProcessingResult returned
    \* ---- audio_service.py (two invocations running at once)
    calls,              \* per invocation: position, snippet_id, flag, result
    shared_disk         \* per artifact path: whose audio it holds, or Absent

classifierVars == <<audio, onset_times, classifier_call, classifier_raised,
                    hit, drum_pattern, midi_pattern>>
onsetVars == <<onsets_with_strength, min_strength, onset_call, onset_raised,
               filtered>>
analysisVars ==
    <<analysis_env, analysis_args, analysis_call, analysis_result>>
peakVars == <<peak_args, peak_call, peak_result>>
trimVars == <<trim_args, trim_call, trim_result>>
stemsVars == <<stems_args, stems_call, stems_result>>
serviceVars == <<request, pc, disk, temp_files, stem_paths, metadata, stages,
                 faults, result>>
concurrentVars == <<calls, shared_disk>>
vars == <<classifierVars, onsetVars, analysisVars, peakVars, trimVars,
          stemsVars, serviceVars, concurrentVars>>

\* The variables a specification leaves alone.
ClassifierOnly ==
    UNCHANGED <<peakVars, onsetVars, analysisVars, trimVars,
                stemsVars, serviceVars, concurrentVars>>
OnsetOnly ==
    UNCHANGED <<peakVars, classifierVars, analysisVars, trimVars,
                stemsVars, serviceVars, concurrentVars>>
AnalysisOnly ==
    UNCHANGED <<peakVars, classifierVars, onsetVars, trimVars,
                stemsVars, serviceVars, concurrentVars>>
TrimOnly ==
    UNCHANGED <<peakVars, classifierVars, onsetVars, analysisVars,
                stemsVars, serviceVars, concurrentVars>>
StemsOnly ==
    UNCHANGED <<peakVars, classifierVars, onsetVars, analysisVars,
                trimVars, serviceVars, concurrentVars>>
ServiceOnly ==
    UNCHANGED <<peakVars, classifierVars, onsetVars, analysisVars,
                trimVars, stemsVars, concurrentVars>>
ConcurrentOnly ==
    UNCHANGED <<peakVars, classifierVars, onsetVars, analysisVars,
                trimVars, stemsVars, serviceVars>>
PeakOnly ==
    UNCHANGED <<classifierVars, onsetVars, analysisVars,
                trimVars, stemsVars, serviceVars, concurrentVars>>

-----------------------------------------------------------------------------
(* Bounds of the model. *)

\* An onset time is a number of 1/TimeDen seconds.
TimeDen == 2
\* The largest onset time drawn, in that unit.
MaxTime == 3
\* The longest onset list drawn.
MaxOnsets == 2
\* The number of samples of a readable buffer.
BufLen == 2
\* Sample rates 1..MaxRate Hz are drawn.
MaxRate == 2

-----------------------------------------------------------------------------
(* Helpers. *)

Max(a, b) == IF a >= b THEN a ELSE b
Min(a, b) == IF a <= b THEN a ELSE b

\* Mutation: the quotient n/d (n >= 0, d > 0) is rounded to the nearest
\* integer, halves upwards.
RoundHalfUp(n, d) == (2 * n + d) \div (2 * d)

\* Python's int() of the quotient n/d (d > 0): truncation towards zero.
PyInt(n, d) == IF n >= 0 THEN n \div d ELSE -((-n) \div d)

\* A slice bound as Python reads it: a negative one counts from the end, and
\* the result is clamped to 0..n.
PyIndex(i, n) == IF i < 0 THEN Max(0, i + n) ELSE Min(i, n)

\* Python's seq[lo:hi].
PySlice(seq, lo, hi) ==
    LET l == PyIndex(lo, Len(seq))
        h == PyIndex(hi, Len(seq))
    IN  IF l >= h THEN <<>> ELSE SubSeq(seq, l + 1, h)

\* The number of indices of seq that hold v.
Count(seq, v) == Cardinality({i \in DOMAIN seq : seq[i] = v})

-----------------------------------------------------------------------------
(* drum_classifier.py *)

\* The drum types, in the insertion order of the dicts `energies`,
\* `drum_pattern` and DRUM_MIDI_NOTES.
DrumTypes == <<"kick", "snare", "hihat">>

DRUM_MIDI_NOTES == [kick |-> 36, snare |-> 38, hihat |-> 42]

\* The default of the parameter window_size, scaled from 2048 samples down to
\* the buffers of the model (window_size // 2 samples on each side).
WindowSize == 2

\* A sample of the model carries the band its spectral magnitude falls in:
\* one of the three bands of classify_drum_hit, or "none" (silence, or a
\* frequency outside every band).
Contents == {"none", "kick", "snare", "hihat"}

\* np.sum(magnitudes[(freqs >= lo) & (freqs < hi)]): the magnitude of the
\* window's spectrum inside one band.  The spectrum is abstracted: each sample
\* of the window contributes one unit to the band it carries.
BandEnergy(window, band) == Count(window, band)

\* Mutation: a later key replaces the best one on a tie.
MaxOnTieTakesLater(energies, keys, i, best) ==
    energies[keys[i]] >= energies[best]

\* Whether max() replaces its best key by keys[i].
MaxReplaces(energies, keys, i, best) ==
    energies[keys[i]] > energies[best]

\* Python's max(energies, key=energies.get): the keys are visited in
\* insertion order and the best one is replaced only by a strictly greater one.
RECURSIVE PyMaxFrom(_, _, _, _)
PyMaxFrom(energies, keys, i, best) ==
    IF i > Len(keys) THEN best
    ELSE PyMaxFrom(energies, keys, i + 1,
                   IF MaxReplaces(energies, keys, i, best)
                   THEN keys[i] ELSE best)

PyMax(energies, keys) == PyMaxFrom(energies, keys, 2, keys[1])

\* The window classify_drum_hit cuts out of y around onset_sample.
HitWindow(y, onset_sample, window_size) ==
    LET start_sample == Max(0, onset_sample - window_size \div 2)
        end_sample == Min(Len(y), onset_sample + window_size \div 2)
    IN  PySlice(y, start_sample, end_sample)

\* The dict `energies` of a window.
Energies(window) ==
    [kick |-> BandEnergy(window, "kick"),
     snare |-> BandEnergy(window, "snare"),
     hihat |-> BandEnergy(window, "hihat")]

\* Mutation: there is no except clause; the exception leaves the function.
Reraised(raised) == raised

\* except Exception as e: ... return 'snare'
DefaultOnError(raised) == "snare"

\* classify_drum_hit.  np.fft.rfft raises on an empty window; the except
\* clause turns every exception into the default 'snare'.
classify_drum_hit(y, sr, onset_sample, window_size) ==
    LET window == HitWindow(y, onset_sample, window_size)
    IN  IF Len(window) = 0
        THEN DefaultOnError("ValueError")
        ELSE PyMax(Energies(window), DrumTypes)

\* onset_sample = int(onset_time * sr), the time being t / TimeDen seconds.
OnsetSample(t, sr) == PyInt(t * sr, TimeDen)

\* Mutation: the bucket is overwritten instead of appended to.
OverwriteBucket(pattern, drum_type, t) ==
    [pattern EXCEPT ![drum_type] = <<t>>]

\* Mutation: a time the bucket already holds goes to the next bucket.
SpreadEqualTimes(pattern, drum_type, t) ==
    LET next == IF drum_type = "kick" THEN "snare"
                ELSE IF drum_type = "snare" THEN "hihat" ELSE "kick"
        target == IF \E i \in DOMAIN pattern[drum_type] :
                         pattern[drum_type][i] = t
                  THEN next ELSE drum_type
    IN  [pattern EXCEPT ![target] = Append(@, t)]

\* Mutation: the time is put in front of the bucket.
PrependToBucket(pattern, drum_type, t) ==
    [pattern EXCEPT ![drum_type] = <<t>> \o @]

\* drum_pattern[drum_type].append(onset_time)
AddToPattern(pattern, drum_type, t) ==
    [pattern EXCEPT ![drum_type] = Append(@, t)]

EmptyPattern == [kick |-> <<>>, snare |-> <<>>, hihat |-> <<>>]

\* The loop of classify_drum_pattern over onset_times[i..], in input order.
RECURSIVE ClassifyFrom(_, _, _, _, _)
ClassifyFrom(y, sr, times, i, pattern) ==
    IF i > Len(times) THEN pattern
    ELSE LET drum_type ==
                 classify_drum_hit(y, sr, OnsetSample(times[i], sr), WindowSize)
         IN  ClassifyFrom(y, sr, times, i + 1,
                          AddToPattern(pattern, drum_type, times[i]))

\* classify_drum_pattern: [raised, value].
classify_drum_pattern(file, times) ==
    IF ~file.exists
    THEN [raised |-> "FileNotFoundError", value |-> EmptyPattern]
    ELSE IF ~file.loadable
    THEN [raised |-> "RuntimeError", value |-> EmptyPattern]
    ELSE [raised |-> "none",
          value |-> ClassifyFrom(file.y, file.sr, times, 1, EmptyPattern)]

\* The (time, midi_note) tuples of one bucket, in its order.
BucketNotes(pattern, drum_type) ==
    [i \in 1..Len(pattern[drum_type]) |->
        <<pattern[drum_type][i], DRUM_MIDI_NOTES[drum_type]>>]

\* The list midi_pattern before the sort: drum_pattern.items() in dict order.
Expand(pattern) ==
    BucketNotes(pattern, DrumTypes[1]) \o BucketNotes(pattern, DrumTypes[2])
        \o BucketNotes(pattern, DrumTypes[3])

\* Where a stable sort by x[0] puts `pair` into the sorted list `sorted`:
\* after every element whose time is not greater.
InsertByTime(sorted, pair) ==
    LET k == Cardinality({i \in DOMAIN sorted : sorted[i][1] <= pair[1]})
    IN  SubSeq(sorted, 1, k) \o <<pair>> \o SubSeq(sorted, k + 1, Len(sorted))

RECURSIVE StableSortFrom(_, _, _)
StableSortFrom(list, i, sorted) ==
    IF i > Len(list) THEN sorted
    ELSE StableSortFrom(list, i + 1, InsertByTime(sorted, list[i]))

\* Mutation: the list is returned as it was built.
NoSort(list) == list

\* midi_pattern.sort(key=lambda x: x[0])
SortMidiPattern(list) == StableSortFrom(list, 1, <<>>)

\* get_drum_midi_pattern: [raised, value].
get_drum_midi_pattern(file, times) ==
    LET classified == classify_drum_pattern(file, times)
    IN  IF classified.raised # "none"
        THEN [raised |-> classified.raised, value |-> <<>>]
        ELSE [raised |-> "none",
              value |-> SortMidiPattern(Expand(classified.value))]

\* The audio files drawn: a missing one, one librosa cannot load, and the
\* readable ones, with every buffer of BufLen samples at every sample rate.
NoBuffer == [exists |-> FALSE, loadable |-> FALSE, y |-> <<>>, sr |-> 1]
AudioFiles ==
    {NoBuffer, [NoBuffer EXCEPT !.exists = TRUE]}
    \cup {[exists |-> TRUE, loadable |-> TRUE, y |-> y, sr |-> sr] :
            y \in [1..BufLen -> Contents], sr \in 1..MaxRate}

OnsetTimes == 0..MaxTime
OnsetLists == UNION {[1..n -> OnsetTimes] : n \in 0..MaxOnsets}

NoHit == [onset_sample |-> 0, drum_type |-> "none"]

ClassifierIdle ==
    /\ audio = NoBuffer
    /\ onset_times = <<>>
    /\ classifier_call = "none"
    /\ classifier_raised = "none"
    /\ hit = NoHit
    /\ drum_pattern = EmptyPattern
    /\ midi_pattern = <<>>

ClassifierInit ==
    /\ audio \in AudioFiles
    /\ onset_times \in OnsetLists
    /\ classifier_call = "none"
    /\ classifier_raised = "none"
    /\ hit = NoHit
    /\ drum_pattern = EmptyPattern
    /\ midi_pattern = <<>>

\* A caller that loaded the buffer classifies one hit, window_size defaulted.
CallClassifyDrumHit(onset_sample) ==
    /\ classifier_call = "none"
    /\ audio.exists /\ audio.loadable
    /\ classifier_call' = "classify_drum_hit"
    /\ hit' = [onset_sample |-> onset_sample,
               drum_type |-> classify_drum_hit(audio.y, audio.sr, onset_sample,
                                               WindowSize)]
    /\ UNCHANGED <<audio, onset_times, classifier_raised, drum_pattern,
                   midi_pattern>>
    /\ ClassifierOnly

CallClassifyDrumPattern ==
    /\ classifier_call = "none"
    /\ LET r == classify_drum_pattern(audio, onset_times)
       IN  /\ classifier_raised' = r.raised
           /\ drum_pattern' = r.value
    /\ classifier_call' = "classify_drum_pattern"
    /\ UNCHANGED <<audio, onset_times, hit, midi_pattern>>
    /\ ClassifierOnly

CallGetDrumMidiPattern ==
    /\ classifier_call = "none"
    /\ LET r == get_drum_midi_pattern(audio, onset_times)
       IN  /\ classifier_raised' = r.raised
           /\ midi_pattern' = r.value
    /\ classifier_call' = "get_drum_midi_pattern"
    /\ UNCHANGED <<audio, onset_times, hit, drum_pattern>>
    /\ ClassifierOnly

\* The sample indices a caller of classify_drum_hit passes lie between
\* -MaxSample and MaxSample.
MaxSample == BufLen + WindowSize

ClassifierNext ==
    \/ \E onset_sample \in (-MaxSample)..MaxSample :
          CallClassifyDrumHit(onset_sample)
    \/ CallClassifyDrumPattern
    \/ CallGetDrumMidiPattern

-----------------------------------------------------------------------------
(* onset_detector.py *)

\* A strength is a number of 1/StrengthDen: 0 .. StrengthDen is [0, 1].
StrengthDen == 2
\* The longest event list drawn.
MaxEvents == 2
\* The largest event time drawn.
MaxEventTime == 1

\* The elements of a Python list: a bare float, or a tuple of numbers.
PyFloat(v) == [type |-> "float", value |-> v]
PyTuple(items) == [type |-> "tuple", items |-> items]

\* Mutation: an event of exactly the threshold strength is dropped.
KeepsStrictlyStronger(strength, threshold) == strength > threshold

\* Mutation: the comparison is the wrong way round.
KeepsWeaker(strength, threshold) == strength <= threshold

\* The condition of the list comprehension: strength >= min_strength.
Keeps(strength, threshold) == strength >= threshold

\* The list comprehension of filter_weak_onsets over list[i..].  The target
\* `time, strength` unpacks each element: a float cannot be unpacked
\* (TypeError), a tuple of another length neither (ValueError).
RECURSIVE FilterFrom(_, _, _, _)
FilterFrom(list, threshold, i, kept) ==
    IF i > Len(list) THEN [raised |-> "none", value |-> kept]
    ELSE IF list[i].type # "tuple"
    THEN [raised |-> "TypeError", value |-> <<>>]
    ELSE IF Len(list[i].items) # 2
    THEN [raised |-> "ValueError", value |-> <<>>]
    ELSE FilterFrom(list, threshold, i + 1,
                    IF Keeps(list[i].items[2], threshold)
                    THEN Append(kept, PyFloat(list[i].items[1]))
                    ELSE kept)

\* filter_weak_onsets: [raised, value].
filter_weak_onsets(list, threshold) == FilterFrom(list, threshold, 1, <<>>)

\* The (time, strength) events drawn, strengths in [0, 1].
Events ==
    {PyTuple(<<t, s>>) : t \in 0..MaxEventTime, s \in 0..StrengthDen}
EventLists == UNION {[1..n -> Events] : n \in 0..MaxEvents}

OnsetIdle ==
    /\ onsets_with_strength = <<>>
    /\ min_strength = 0
    /\ onset_call = "none"
    /\ onset_raised = "none"
    /\ filtered = <<>>

OnsetInit ==
    /\ onsets_with_strength \in EventLists
    /\ min_strength \in 0..StrengthDen
    /\ onset_call = "none"
    /\ onset_raised = "none"
    /\ filtered = <<>>

CallFilterWeakOnsets ==
    /\ onset_call = "none"
    /\ LET r == filter_weak_onsets(onsets_with_strength, min_strength)
       IN  /\ onset_raised' = r.raised
           /\ filtered' = r.value
    /\ onset_call' = "filter_weak_onsets"
    /\ UNCHANGED <<onsets_with_strength, min_strength>>
    /\ OnsetOnly

\* A caller passes the list filter_weak_onsets returned to it once more.
CallFilterWeakOnsetsAgain ==
    /\ onset_call = "filter_weak_onsets"
    /\ onset_raised = "none"
    /\ LET r == filter_weak_onsets(filtered, min_strength)
       IN  /\ onset_raised' = r.raised
           /\ filtered' = IF r.raised = "none" THEN r.value ELSE filtered
    /\ onset_call' = "filter_weak_onsets_again"
    /\ UNCHANGED <<onsets_with_strength, min_strength>>
    /\ OnsetOnly

OnsetNext ==
    \/ CallFilterWeakOnsets
    \/ CallFilterWeakOnsetsAgain

-----------------------------------------------------------------------------
(* onset_detector.py: detect_onsets, get_tempo, analyze_drum_pattern *)

\* The longest buffer librosa.load returns, in samples.
MaxSamples == 2
\* The most onsets librosa finds.
MaxHits == 2

\* What librosa.load raises for a file it cannot read: the file vanished
\* after the os.path.exists test, the process may not read it, or no
\* decoder takes it.
LoadErrors == {"FileNotFoundError", "PermissionError", "NoBackendError"}

\* The file at audio_path and what librosa does with it: whether the file
\* exists, whether librosa can be imported, what load raises, the number of
\* samples and the sample rate it returns, the number of onsets
\* onset_detect finds and whether it raises, whether beat_track raises.
AnalysisEnvs ==
    [exists : BOOLEAN, librosa : BOOLEAN, load : {"ok"} \cup LoadErrors,
     samples : 0..MaxSamples, sr : 1..MaxRate, hits : 0..MaxHits,
     detect : {"ok", "ParameterError"}, tempo : {"ok", "ParameterError"}]

\* A float, as a fraction in lowest terms.
RECURSIVE GCD(_, _)
GCD(a, b) == IF b = 0 THEN a ELSE GCD(b, a % b)
Fraction(n, d) ==
    LET g == GCD(n, d) IN [num |-> n \div g, den |-> d \div g]
Zero == Fraction(0, 1)

Outcome(raised, value) == [raised |-> raised, value |-> value]

\* Mutation: there is no `except ImportError` clause before the catch-all.
CatchAllOnly(raised) == "RuntimeError"

\* The except clauses of detect_onsets: an ImportError is raised again as an
\* ImportError, any other exception as a RuntimeError.
DetectHandler(raised) ==
    IF raised = "ImportError" THEN "ImportError" ELSE "RuntimeError"

\* onset_times.tolist(): the times of the onsets found, chronological.
OnsetTimesList(env) == [k \in 1..env.hits |-> k]

\* The try block of detect_onsets: the exception raised in it, or "none".
DetectTry(env) ==
    IF ~env.librosa THEN "ImportError"
    ELSE IF env.load # "ok" THEN env.load
    ELSE IF env.detect # "ok" THEN env.detect
    ELSE "none"

detect_onsets(env) ==
    IF ~env.exists THEN Outcome("FileNotFoundError", <<>>)
    ELSE IF DetectTry(env) # "none"
    THEN Outcome(DetectHandler(DetectTry(env)), <<>>)
    ELSE Outcome("none", OnsetTimesList(env))

\* get_tempo: every exception of its try block becomes a RuntimeError.
get_tempo(env) ==
    IF ~env.exists THEN Outcome("FileNotFoundError", 0)
    ELSE IF ~env.librosa \/ env.load # "ok" \/ env.tempo # "ok"
    THEN Outcome("RuntimeError", 0)
    ELSE Outcome("none", 120)

\* a / b on floats.
TrueDiv(a, b) ==
    IF b.num = 0 THEN Outcome("ZeroDivisionError", Zero)
    ELSE Outcome("none", Fraction(a.num * b.den, a.den * b.num))

\* Mutation: the division is made for a duration of 0 as well.
NotNegative(duration) == duration.num >= 0

\* if duration > 0
Positive(duration) == duration.num > 0

\* hit_density = len(onset_times) / duration if duration > 0 else 0
HitDensity(times, duration) ==
    IF Positive(duration) THEN TrueDiv(Fraction(Len(times), 1), duration)
    ELSE Outcome("none", Zero)

\* The arguments filter_weak and min_strength (a number of 1/StrengthDen).
AnalysisArgs == [filter_weak : BOOLEAN, min_strength : 0..StrengthDen]

\* Mutation: with filter_weak the onsets below min_strength (weakest) are left out,
\* the k-th onset being of strength k.
FilteredOnsets(env, filter_weak, weakest) ==
    IF filter_weak /\ detect_onsets(env).raised = "none"
    THEN Outcome("none", [k \in 1..Max(0, env.hits - weakest) |-> k])
    ELSE detect_onsets(env)

\* onset_times = detect_onsets(audio_path): every parameter defaulted, and
\* neither filter_weak nor min_strength read.
PrimaryOnsets(env, filter_weak, weakest) == detect_onsets(env)

\* The try block of analyze_drum_pattern.
AnalyzeTry(env, filter_weak, weakest) ==
    IF ~env.librosa THEN Outcome("ImportError", <<>>)
    ELSE IF ~env.exists THEN Outcome("FileNotFoundError", <<>>)
    ELSE IF env.load # "ok" THEN Outcome(env.load, <<>>)
    ELSE LET duration == Fraction(env.samples, env.sr)
             onsets == PrimaryOnsets(env, filter_weak, weakest)
             tempo == get_tempo(env)
             density == HitDensity(onsets.value, duration)
         IN  IF onsets.raised # "none" THEN Outcome(onsets.raised, <<>>)
             ELSE IF tempo.raised # "none" THEN Outcome(tempo.raised, <<>>)
             ELSE IF density.raised # "none"
             THEN Outcome(density.raised, <<>>)
             ELSE Outcome("none",
                          [onset_times |-> onsets.value,
                           num_hits |-> Len(onsets.value),
                           tempo_bpm |-> tempo.value,
                           duration_seconds |-> duration,
                           hit_density |-> density.value])

\* analyze_drum_pattern: `except Exception` makes a RuntimeError of whatever
\* the try block raises.
analyze_drum_pattern(env, filter_weak, weakest) ==
    IF AnalyzeTry(env, filter_weak, weakest).raised # "none"
    THEN Outcome("RuntimeError", <<>>)
    ELSE AnalyzeTry(env, filter_weak, weakest)

NoAnalysis == Outcome("none", <<>>)
NoAnalysisArgs == [filter_weak |-> FALSE, min_strength |-> 0]
NoAnalysisEnv ==
    [exists |-> FALSE, librosa |-> FALSE, load |-> "ok", samples |-> 0,
     sr |-> 1, hits |-> 0, detect |-> "ok", tempo |-> "ok"]

AnalysisIdle ==
    /\ analysis_env = NoAnalysisEnv
    /\ analysis_args = NoAnalysisArgs
    /\ analysis_call = "none"
    /\ analysis_result = NoAnalysis

AnalysisInit ==
    /\ analysis_env \in AnalysisEnvs
    /\ analysis_args \in AnalysisArgs
    /\ analysis_call = "none"
    /\ analysis_result = NoAnalysis

CallDetectOnsets ==
    /\ analysis_call = "none"
    /\ analysis_call' = "detect_onsets"
    /\ analysis_result' = detect_onsets(analysis_env)
    /\ UNCHANGED <<analysis_env, analysis_args>>
    /\ AnalysisOnly

CallAnalyzeDrumPattern ==
    /\ analysis_call = "none"
    /\ analysis_call' = "analyze_drum_pattern"
    /\ analysis_result' =
          analyze_drum_pattern(analysis_env, analysis_args.filter_weak,
                               analysis_args.min_strength)
    /\ UNCHANGED <<analysis_env, analysis_args>>
    /\ AnalysisOnly

AnalysisNext ==
    \/ CallDetectOnsets
    \/ CallAnalyzeDrumPattern

-----------------------------------------------------------------------------
(* onset_detector.py: detect_onsets and detect_onsets_with_strength on a
   loaded file, down to the peaks librosa picks from the onset envelope.
   A frame is a position of the envelope, counted from 0; a threshold is a
   number of hundredths. *)
EnvLen == 3
MaxEnv == 3
MaxHop == 2

EnvFrames == 0..(EnvLen - 1)
Envelopes == [EnvFrames -> 0..MaxEnv]

\* delta of librosa.onset.onset_detect when the caller passes none (0.07).
LibrosaDelta == 7
\* onset_threshold: float = 0.3
DefaultOnsetThreshold == 30
OnsetThresholds == {0, LibrosaDelta, DefaultOnsetThreshold, 100}

Highest(S) == CHOOSE x \in S : \A y \in S : y <= x
Lowest(S) == CHOOSE x \in S : \A y \in S : x <= y
EnvRange(onset_env) == {onset_env[n] : n \in DOMAIN onset_env}

RECURSIVE Ascending(_)
Ascending(S) ==
    IF S = {} THEN <<>>
    ELSE <<Lowest(S)>> \o Ascending(S \ {Lowest(S)})

RECURSIVE SumOver(_, _)
SumOver(onset_env, S) ==
    IF S = {} THEN 0
    ELSE LET n == Lowest(S) IN onset_env[n] + SumOver(onset_env, S \ {n})

\* librosa.util.peak_pick on the envelope scaled to [0, 1], its windows
\* taken as one frame on each side: a frame is a peak when it is the
\* highest of its window and stands at least delta above the window's mean.
PeakWindow(n) == {m \in EnvFrames : m >= n - 1 /\ m <= n + 1}
IsPeak(onset_env, n, delta) ==
    LET window == PeakWindow(n)
        span == Highest(EnvRange(onset_env)) - Lowest(EnvRange(onset_env))
        above == Cardinality(window) * onset_env[n] - SumOver(onset_env, window)
    IN /\ \A m \in window : onset_env[m] <= onset_env[n]
       /\ span > 0 \/ delta = 0
       /\ 100 * above >= delta * Cardinality(window) * span
PeakPick(onset_env, delta) == {n \in EnvFrames : IsPeak(onset_env, n, delta)}

\* librosa.onset.onset_backtrack: the nearest local minimum of the envelope
\* at or before the frame, frame 0 counting as one.
LocalMinima(onset_env) ==
    {0} \cup {n \in EnvFrames :
                /\ n - 1 \in EnvFrames
                /\ n + 1 \in EnvFrames
                /\ onset_env[n] <= onset_env[n - 1]
                /\ onset_env[n] < onset_env[n + 1]}
OnsetBacktrack(onset_env, n) ==
    Highest({m \in LocalMinima(onset_env) : m <= n})

\* librosa.onset.onset_detect(..., backtrack=..., units='frames').
onset_detect(onset_env, delta, backtrack) ==
    LET peaks == Ascending(PeakPick(onset_env, delta))
    IN [k \in DOMAIN peaks |->
           IF backtrack THEN OnsetBacktrack(onset_env, peaks[k]) ELSE peaks[k]]

\* librosa.frames_to_time: frame * hop_length / sr.
frames_to_time(onset_frames, rate, hop) ==
    [k \in DOMAIN onset_frames |-> Fraction(onset_frames[k] * hop, rate)]

\* Mutation: the caller's onset_threshold is handed to onset_detect.
ThresholdAsDelta(onset_threshold) == onset_threshold

\* The delta of detect_onsets' call of onset_detect: the call names y, sr,
\* hop_length, backtrack and units, and onset_threshold is not among them.
DeltaApplied(onset_threshold) == LibrosaDelta

\* What a call is made on: the envelope of the loaded file and the
\* arguments of the caller.
PeakArgs ==
    [onset_env : Envelopes, sr : 1..MaxRate, hop_length : 1..MaxHop,
     backtrack : BOOLEAN, onset_threshold : OnsetThresholds]

\* onset_frames of detect_onsets.
DetectOnsetFrames(p) ==
    onset_detect(p.onset_env, DeltaApplied(p.onset_threshold), p.backtrack)

\* The list detect_onsets returns for a file that loads.
DetectOnsetTimes(p) ==
    frames_to_time(DetectOnsetFrames(p), p.sr, p.hop_length)

\* onset_frames of detect_onsets_with_strength: backtrack=True.
StrengthOnsetFrames(p) == onset_detect(p.onset_env, LibrosaDelta, TRUE)

\* Mutation: the envelope is read at the peak each onset was picked at.
StrengthAtPeaks(p) ==
    LET peaks == Ascending(PeakPick(p.onset_env, LibrosaDelta))
    IN [k \in DOMAIN peaks |-> p.onset_env[peaks[k]]]

\* onset_strengths = onset_env[onset_frames]
RawStrengths(p) ==
    [k \in DOMAIN StrengthOnsetFrames(p) |->
        p.onset_env[StrengthOnsetFrames(p)[k]]]

\* A float that is not a number (0.0 / 0.0 on numpy arrays).
NaN == [num |-> 0, den |-> 0]

\* Mutation: the strengths are divided whatever their maximum is.
AnyMaximum(max_strength) == TRUE

\* if max_strength > 0
MaximumIsPositive(max_strength) == max_strength > 0

\* onset_strengths / max_strength, guarded by the two ifs.
Normalized(onset_strengths) ==
    IF Len(onset_strengths) > 0
    THEN LET max_strength == Highest(EnvRange(onset_strengths))
         IN IF MaximumIsPositive(max_strength)
            THEN [k \in DOMAIN onset_strengths |->
                     IF max_strength = 0 THEN NaN
                     ELSE Fraction(onset_strengths[k], max_strength)]
            ELSE [k \in DOMAIN onset_strengths |->
                     Fraction(onset_strengths[k], 1)]
    ELSE onset_strengths

\* list(zip(onset_times.tolist(), onset_strengths.tolist()))
detect_onsets_with_strength(p) ==
    LET times == frames_to_time(StrengthOnsetFrames(p), p.sr, p.hop_length)
        strengths == Normalized(RawStrengths(p))
    IN [k \in DOMAIN times |-> <<times[k], strengths[k]>>]

NoPeakArgs ==
    [onset_env |-> [n \in EnvFrames |-> 0], sr |-> 1, hop_length |-> 1,
     backtrack |-> FALSE, onset_threshold |-> DefaultOnsetThreshold]

PeakIdle ==
    /\ peak_args = NoPeakArgs
    /\ peak_call = "none"
    /\ peak_result = <<>>

PeakInit ==
    /\ peak_args \in PeakArgs
    /\ peak_call = "none"
    /\ peak_result = <<>>

CallDetectOnsetsOnEnvelope ==
    /\ peak_call = "none"
    /\ peak_call' = "detect_onsets"
    /\ peak_result' = DetectOnsetTimes(peak_args)
    /\ UNCHANGED peak_args
    /\ PeakOnly

CallDetectOnsetsWithStrength ==
    /\ peak_call = "none"
    /\ peak_call' = "detect_onsets_with_strength"
    /\ peak_result' = detect_onsets_with_strength(peak_args)
    /\ UNCHANGED peak_args
    /\ PeakOnly

PeakNext == CallDetectOnsetsOnEnvelope \/ CallDetectOnsetsWithStrength

-----------------------------------------------------------------------------
(* utils.py *)

\* The duration limits of trim_audio, in seconds.
MinSnippetSeconds == 15
MaxSnippetSeconds == 90

\* Times are drawn on a grid of 5 seconds: start from -5 to 5 * MaxStartGrid,
\* end from 0 to 5 * MaxEndGrid; a source lasts 5 * ShortSourceGrid or
\* 5 * MaxEndGrid seconds.
MaxStartGrid == 1
MaxEndGrid == 20
ShortSourceGrid == 6

GridSeconds(k) == 5 * k
StartTimes == {GridSeconds(k) : k \in -1..MaxStartGrid}
EndTimes == {GridSeconds(k) : k \in 0..MaxEndGrid}

\* An uploaded file: whether it exists, has an allowed extension, is at most
\* 50 MB, can be decoded by pydub, and how many seconds of audio it holds.
GoodSource(seconds) ==
    [exists |-> TRUE, ext_ok |-> TRUE, size_ok |-> TRUE, decodable |-> TRUE,
     duration |-> seconds]
MissingSource ==
    [exists |-> FALSE, ext_ok |-> TRUE, size_ok |-> TRUE, decodable |-> FALSE,
     duration |-> 0]
SourceFiles ==
    {MissingSource,
     [GoodSource(GridSeconds(ShortSourceGrid)) EXCEPT !.ext_ok = FALSE],
     [GoodSource(GridSeconds(ShortSourceGrid)) EXCEPT !.size_ok = FALSE],
     [GoodSource(0) EXCEPT !.decodable = FALSE],
     GoodSource(0),
     GoodSource(GridSeconds(ShortSourceGrid)),
     GoodSource(GridSeconds(MaxEndGrid))}

\* validate_audio_file: (is_valid, error_message), the checks in their order.
validate_audio_file(source) ==
    IF ~source.exists THEN [is_valid |-> FALSE, reason |-> "File not found"]
    ELSE IF ~source.ext_ok
    THEN [is_valid |-> FALSE, reason |-> "Unsupported format"]
    ELSE IF ~source.size_ok
    THEN [is_valid |-> FALSE, reason |-> "File too large"]
    ELSE IF ~source.decodable
    THEN [is_valid |-> FALSE, reason |-> "Invalid audio file"]
    ELSE IF source.duration = 0
    THEN [is_valid |-> FALSE, reason |-> "Audio file is empty"]
    ELSE [is_valid |-> TRUE, reason |-> ""]

\* What can go wrong inside trim_audio's try block, besides the source:
\* pydub is not installed, AudioSegment.from_file fails, os.makedirs fails, or
\* export fails after it created the output file.
TrimFaults == {"none", "import", "decode", "makedirs", "export"}

\* Mutation: a snippet of exactly the minimum duration is rejected.
TooShortInclusive(duration_seconds) == duration_seconds <= MinSnippetSeconds

\* if duration_seconds < 15
TooShort(duration_seconds) == duration_seconds < MinSnippetSeconds

\* Mutation: no snippet is rejected as too long.
NeverTooLong(duration_seconds) == FALSE

\* if duration_seconds > 90
TooLong(duration_seconds) == duration_seconds > MaxSnippetSeconds

TrimOutcome(raised, reason, decoded, output_exists) ==
    [raised |-> raised, reason |-> reason, decoded |-> decoded,
     output_exists |-> output_exists]

\* The try block of trim_audio.  Every exception raised in it that is not an
\* ImportError, the ValueError of the end-time check included, is caught by
\* `except Exception` and raised again as a RuntimeError.
TrimTry(source, start, end, fault) ==
    IF fault = "import"
    THEN TrimOutcome("ImportError", "pydub is not installed", FALSE, FALSE)
    ELSE IF ~source.decodable \/ fault = "decode"
    THEN TrimOutcome("RuntimeError", "decode failed", TRUE, FALSE)
    ELSE IF end > source.duration
    THEN TrimOutcome("RuntimeError", "End time exceeds audio duration",
                     TRUE, FALSE)
    ELSE IF fault = "makedirs"
    THEN TrimOutcome("RuntimeError", "makedirs failed", TRUE, FALSE)
    ELSE IF fault = "export"
    THEN TrimOutcome("RuntimeError", "export failed", TRUE, TRUE)
    ELSE TrimOutcome("none", "", TRUE, TRUE)

\* trim_audio: the exception raised ("none": output_path is returned), its
\* message, whether the source was decoded, and whether a file exists at
\* output_path afterwards.
trim_audio(source, start, end, fault) ==
    IF ~source.exists
    THEN TrimOutcome("FileNotFoundError", "Audio file not found", FALSE, FALSE)
    ELSE IF start < 0
    THEN TrimOutcome("ValueError", "Start time cannot be negative",
                     FALSE, FALSE)
    ELSE IF end <= start
    THEN TrimOutcome("ValueError", "End time must be greater than start time",
                     FALSE, FALSE)
    ELSE IF TooShort(end - start)
    THEN TrimOutcome("ValueError", "Duration too short", FALSE, FALSE)
    ELSE IF TooLong(end - start)
    THEN TrimOutcome("ValueError", "Duration too long", FALSE, FALSE)
    ELSE TrimTry(source, start, end, fault)

NoTrim == TrimOutcome("none", "", FALSE, FALSE)
NoTrimArgs ==
    [source |-> MissingSource, start |-> 0, end |-> 0, fault |-> "none"]

TrimIdle ==
    /\ trim_args = NoTrimArgs
    /\ trim_call = "none"
    /\ trim_result = NoTrim

TrimInit ==
    /\ trim_args \in [source : SourceFiles, start : StartTimes, end : EndTimes,
                      fault : TrimFaults]
    /\ trim_call = "none"
    /\ trim_result = NoTrim

CallTrimAudio ==
    /\ trim_call = "none"
    /\ trim_call' = "trim_audio"
    /\ trim_result' = trim_audio(trim_args.source, trim_args.start,
                                 trim_args.end, trim_args.fault)
    /\ UNCHANGED trim_args
    /\ TrimOnly

TrimNext == CallTrimAudio

-----------------------------------------------------------------------------
(* stem_separator.py *)

StemNames == {"drums", "bass", "vocals", "other"}

\* stem_dir/<name>.wav, stem_dir being named after the trimmed file.
StemFile ==
    [drums |-> "stems/snippet_id/drums.wav",
     bass |-> "stems/snippet_id/bass.wav",
     vocals |-> "stems/snippet_id/vocals.wav",
     other |-> "stems/snippet_id/other.wav"]

EmptyDict == [k \in {} |-> ""]

\* What happens when separate_stems runs: os.makedirs fails, Spleeter is not
\* installed, the separation raises, or it ends and leaves the stem files
\* `produced`, those of `empty` with no audio data in them.
SeparatorRuns ==
    {[fails |-> f, produced |-> {}, empty |-> {}] : f \in {"makedirs", "import"}}
    \cup {[fails |-> "separate", produced |-> P, empty |-> {}] :
             P \in {{}, {"drums"}}}
    \cup UNION {{[fails |-> "none", produced |-> P, empty |-> E] :
                   E \in SUBSET P} : P \in SUBSET StemNames}

StemsOutcome(raised, value, produced) ==
    [raised |-> raised, value |-> value, produced |-> produced]

\* separate_stems: the exception raised ("none": the mapping `value` is
\* returned) and the stem files written.  The loop over stem_paths asks
\* os.path.exists of each file and nothing else.
separate_stems(audio_exists, run) ==
    IF ~audio_exists
    THEN StemsOutcome("FileNotFoundError", EmptyDict, {})
    ELSE IF run.fails = "makedirs"
    THEN StemsOutcome("OSError", EmptyDict, {})
    ELSE IF run.fails = "import"
    THEN StemsOutcome("ImportError", EmptyDict, {})
    ELSE IF run.fails = "separate"
    THEN StemsOutcome("RuntimeError", EmptyDict, run.produced)
    ELSE IF \E name \in StemNames : name \notin run.produced
    THEN StemsOutcome("RuntimeError", EmptyDict, run.produced)
    ELSE StemsOutcome("none", StemFile, run.produced)

NoStems == StemsOutcome("none", EmptyDict, {})
NoStemsArgs ==
    [audio_exists |-> FALSE,
     run |-> [fails |-> "none", produced |-> {}, empty |-> {}]]

StemsIdle ==
    /\ stems_args = NoStemsArgs
    /\ stems_call = "none"
    /\ stems_result = NoStems

StemsInit ==
    /\ stems_args \in [audio_exists : BOOLEAN, run : SeparatorRuns]
    /\ stems_call = "none"
    /\ stems_result = NoStems

CallSeparateStems ==
    /\ stems_call = "none"
    /\ stems_call' = "separate_stems"
    /\ stems_result' = separate_stems(stems_args.audio_exists, stems_args.run)
    /\ UNCHANGED stems_args
    /\ StemsOnly

StemsNext == CallSeparateStems

-----------------------------------------------------------------------------
(* audio_service.py *)

SourcePath == "uploads/song.mp3"
TrimmedPath == "trimmed/snippet_id.wav"

\* What an earlier request with another snippet_id left under
\* output_base_dir.
OtherTrimmedPath == "trimmed/snippet_other.wav"
OtherFiles == {OtherTrimmedPath, "stems/snippet_other/drums.wav"}

NoError == <<>>

\* The default of the optional arguments of AudioProcessingResult.
None == [none |-> "None"]

\* Mutation: the attribute is the argument as given.
AsGiven(argument) == argument

\* `stem_paths or {}`, `metadata or {}`: None and the empty dict become {}.
OrEmptyDict(argument) == IF argument = None THEN EmptyDict ELSE argument

\* AudioProcessingResult.__init__
AudioProcessingResult(success, paths, meta, error) ==
    [success |-> success, stem_paths |-> OrEmptyDict(paths),
     metadata |-> OrEmptyDict(meta), error |-> error]

\* AudioProcessingResult(success=False, error=...): stem_paths and metadata
\* default to None and become {}.
FailureResult(prefix, message) ==
    AudioProcessingResult(FALSE, None, None, <<prefix, message>>)

NotReturned == AudioProcessingResult(FALSE, EmptyDict, EmptyDict, NoError)

Requests ==
    [source : SourceFiles, start : StartTimes, end : EndTimes,
     extract_stems : BOOLEAN, cleanup_after : BOOLEAN]

\* The source as the file system shows it now.
SourceNow == [request.source EXCEPT !.exists = (SourcePath \in disk)]

ServiceIdle ==
    /\ request = [source |-> MissingSource, start |-> 0, end |-> 0,
                  extract_stems |-> FALSE, cleanup_after |-> FALSE]
    /\ pc = "idle"
    /\ disk = {}
    /\ temp_files = <<>>
    /\ stem_paths = EmptyDict
    /\ metadata = EmptyDict
    /\ stages = <<>>
    /\ faults = {}
    /\ result = NotReturned

ServiceInit ==
    /\ request \in Requests
    /\ pc = "validate"
    /\ disk = (IF request.source.exists THEN {SourcePath} ELSE {})
                 \cup OtherFiles
    /\ temp_files = <<>>
    /\ stem_paths = EmptyDict
    /\ metadata = EmptyDict
    /\ stages = <<>>
    /\ faults = {}
    /\ result = NotReturned

\* A return statement of process_audio_snippet.
Return(r) ==
    /\ result' = r
    /\ pc' = "done"

\* The disk after the loop of the outer except clause: with cleanup_after,
\* every tracked file that exists is removed, unless os.remove fails.
AfterErrorCleanup(files, remove_ok) ==
    IF request.cleanup_after /\ remove_ok
    THEN files \ {temp_files[i] : i \in DOMAIN temp_files}
    ELSE files

\* Whether the loop of the outer except clause calls os.remove.
ErrorCleanupRemoves(files) ==
    request.cleanup_after /\ \E i \in DOMAIN temp_files : temp_files[i] \in files

\* Mutation: there is no outer `except Exception`; the exception leaves
\* process_audio_snippet.
Propagates(files, fault, message) ==
    /\ disk' = files
    /\ faults' = faults \cup (IF fault = "none" THEN {} ELSE {fault})
    /\ pc' = "raised"
    /\ UNCHANGED result

\* The outer `except Exception`, entered because the environment failed with
\* `fault` ("none": the code itself raised): cleanup on error, then a failure
\* result.
ProcessingError(files, fault, message) ==
    /\ \E remove_ok \in BOOLEAN :
          /\ remove_ok \/ ErrorCleanupRemoves(files)
          /\ disk' = AfterErrorCleanup(files, remove_ok)
          /\ faults' = faults \cup (IF fault = "none" THEN {} ELSE {fault})
                         \cup (IF remove_ok THEN {} ELSE {"remove"})
    /\ Return(FailureResult("Processing error", message))

\* Mutation: the `if not is_valid` return is missing.
NeverRejected(v) == FALSE

\* if not is_valid
Rejected(v) == ~v.is_valid

\* Step 1: validate_audio_file(audio_path).  It can raise when the file
\* vanishes under it (os.path.getsize).
Validate ==
    /\ pc = "validate"
    /\ stages' = Append(stages, "validate")
    /\ \E raises \in BOOLEAN :
          IF raises
          THEN /\ SourcePath \in disk
               /\ ProcessingError(disk, "validate", "validate_audio_file raised")
          ELSE LET v == validate_audio_file(SourceNow)
               IN  IF Rejected(v)
                   THEN /\ Return(FailureResult("Validation failed", v.reason))
                        /\ UNCHANGED <<disk, faults>>
                   ELSE /\ pc' = "original_info"
                        /\ UNCHANGED <<disk, faults, result>>
    /\ UNCHANGED <<request, temp_files, stem_paths, metadata>>
    /\ ServiceOnly

\* original_info = get_audio_info(audio_path)
GetOriginalInfo ==
    /\ pc = "original_info"
    /\ \E raises \in BOOLEAN :
          IF raises
          THEN ProcessingError(disk, "original_info", "Failed to get audio info")
          ELSE /\ pc' = "make_trimmed_dir"
               /\ UNCHANGED <<disk, faults, result>>
    /\ UNCHANGED <<request, temp_files, stem_paths, metadata, stages>>
    /\ ServiceOnly

\* os.makedirs(trimmed_dir, exist_ok=True)
MakeTrimmedDir ==
    /\ pc = "make_trimmed_dir"
    /\ \E raises \in BOOLEAN :
          IF raises
          THEN ProcessingError(disk, "makedirs_trimmed", "makedirs failed")
          ELSE /\ pc' = "trim"
               /\ UNCHANGED <<disk, faults, result>>
    /\ UNCHANGED <<request, temp_files, stem_paths, metadata, stages>>
    /\ ServiceOnly

\* Mutation: the `except ValueError` clause is missing.
CaughtByNoClause(raised) == FALSE

\* except ValueError as e (around trim_audio)
CaughtByTrimClause(raised) == raised = "ValueError"

\* Step 2: trim_audio(...), with its `except ValueError`.  pydub was imported
\* by validate_audio_file, so the import cannot fail here.
Trim ==
    /\ pc = "trim"
    /\ stages' = Append(stages, "trim")
    /\ \E fault \in TrimFaults \ {"import"} :
          LET r == trim_audio(SourceNow, request.start, request.end, fault)
              files == IF r.output_exists THEN disk \cup {TrimmedPath}
                       ELSE disk
              happened == r.reason = fault \o " failed"
          IN  \* a fault that trim_audio did not get to is no other behaviour
              /\ fault = "none" \/ happened
              /\ IF r.raised = "none"
                 THEN /\ disk' = files
                      /\ temp_files' = Append(temp_files, TrimmedPath)
                      /\ pc' = "trimmed_info"
                      /\ UNCHANGED <<faults, result>>
                 ELSE IF CaughtByTrimClause(r.raised)
                 THEN /\ Return(FailureResult("Trimming failed", r.reason))
                      /\ disk' = files
                      /\ UNCHANGED <<faults, temp_files>>
                 ELSE /\ ProcessingError(files, fault, r.reason)
                      /\ UNCHANGED temp_files
    /\ UNCHANGED <<request, stem_paths, metadata>>
    /\ ServiceOnly

\* Mutation: stems are extracted whatever extract_stems says.
AlwaysSeparates(extract_stems) == "make_stems_dir"

\* if extract_stems: ... (step 3 is skipped otherwise)
AfterTrimmedInfo(extract_stems) ==
    IF extract_stems THEN "make_stems_dir" ELSE "metadata"

\* trimmed_info = get_audio_info(trimmed_path)
GetTrimmedInfo ==
    /\ pc = "trimmed_info"
    /\ \E raises \in BOOLEAN :
          IF raises
          THEN ProcessingError(disk, "trimmed_info", "Failed to get audio info")
          ELSE /\ pc' = AfterTrimmedInfo(request.extract_stems)
               /\ UNCHANGED <<disk, faults, result>>
    /\ UNCHANGED <<request, temp_files, stem_paths, metadata, stages>>
    /\ ServiceOnly

\* os.makedirs(stems_dir, exist_ok=True)
MakeStemsDir ==
    /\ pc = "make_stems_dir"
    /\ \E raises \in BOOLEAN :
          IF raises
          THEN ProcessingError(disk, "makedirs_stems", "makedirs failed")
          ELSE /\ pc' = "separate"
               /\ UNCHANGED <<disk, faults, result>>
    /\ UNCHANGED <<request, temp_files, stem_paths, metadata, stages>>
    /\ ServiceOnly

\* Step 3: separate_stems(...), with its `except Exception`, which returns
\* at once.
Separate ==
    /\ pc = "separate"
    /\ stages' = Append(stages, "separate")
    /\ \E run \in SeparatorRuns :
          LET r == separate_stems(TrimmedPath \in disk, run)
          IN  /\ disk' = disk \cup {StemFile[name] : name \in r.produced}
              /\ IF r.raised = "none"
                 THEN /\ stem_paths' = r.value
                      /\ pc' = "metadata"
                      /\ UNCHANGED <<faults, result>>
                 ELSE /\ Return(FailureResult("Stem separation failed",
                                              r.raised))
                      /\ faults' = faults \cup {"separate"}
                      /\ UNCHANGED stem_paths
    /\ UNCHANGED <<request, temp_files, metadata>>
    /\ ServiceOnly

\* The dict `metadata` (sample_rate, channels and the file name left out).
Metadata ==
    [snippet_id |-> "snippet_id",
     original_duration_seconds |-> request.source.duration,
     snippet_duration_seconds |-> request.end - request.start,
     start_time |-> request.start,
     end_time |-> request.end,
     stems_extracted |-> request.extract_stems,
     num_stems |-> Cardinality(DOMAIN stem_paths)]

\* Step 4: the metadata; without cleanup_after the result is returned.
BuildMetadata ==
    /\ pc = "metadata"
    /\ stages' = Append(stages, "metadata")
    /\ metadata' = Metadata
    /\ IF request.cleanup_after
       THEN /\ pc' = "cleanup"
            /\ UNCHANGED result
       ELSE Return(AudioProcessingResult(TRUE, stem_paths, Metadata, NoError))
    /\ UNCHANGED <<request, disk, temp_files, stem_paths, faults>>
    /\ ServiceOnly

\* Mutation: the OSError of os.remove is not caught in step 5 and reaches the
\* outer handler.
RemoveErrorIsFatal(remove_ok) ==
    IF remove_ok
    THEN Return(AudioProcessingResult(TRUE, stem_paths, metadata, NoError))
    ELSE Return(FailureResult("Processing error", "remove failed"))

\* `except OSError as e: logger.warning(...)`, then the return statement of
\* the success path, whether or not os.remove succeeded.
ReturnAfterRemove(remove_ok) ==
    Return(AudioProcessingResult(TRUE, stem_paths, metadata, NoError))

\* Mutation: step 5 removes the directory of the trimmed files.
RemovedWithDirectory == {TrimmedPath, OtherTrimmedPath}

\* Mutation: step 5 removes the stem files as well.
RemovedWithStems == {TrimmedPath} \cup {StemFile[name] : name \in StemNames}

\* os.remove(trimmed_path): the one file step 5 removes.
RemovedByCleanup == {TrimmedPath}

\* Step 5: the trimmed file is removed if it exists (an OSError of os.remove
\* is logged), and the result is returned.
Cleanup ==
    /\ pc = "cleanup"
    /\ stages' = Append(stages, "cleanup")
    /\ \E remove_ok \in BOOLEAN :
          /\ remove_ok \/ TrimmedPath \in disk
          /\ disk' = IF remove_ok THEN disk \ RemovedByCleanup ELSE disk
          /\ faults' = IF remove_ok THEN faults ELSE faults \cup {"remove"}
          /\ ReturnAfterRemove(remove_ok)
    /\ UNCHANGED <<request, temp_files, stem_paths, metadata>>
    /\ ServiceOnly

ServiceNext ==
    \/ Validate
    \/ GetOriginalInfo
    \/ MakeTrimmedDir
    \/ Trim
    \/ GetTrimmedInfo
    \/ MakeStemsDir
    \/ Separate
    \/ BuildMetadata
    \/ Cleanup

-----------------------------------------------------------------------------
(* audio_service.py: two invocations of process_audio_snippet at once.       *)
(* Both are given an acceptable source and a range that fits it, and no      *)
(* collaborator fails by itself: what one invocation sees of the other is    *)
(* the files under output_base_dir.  A step is one call on the file system.  *)

Invocations == {1, 2}

\* str(uuid.uuid4())[:8]: eight hexadecimal digits of a random UUID.  The
\* values two invocations draw are independent of each other.
SnippetIds == {"0a1b2c3d", "4e5f6a7b"}

\* trimmed/snippet_<id>.wav and stems/snippet_<id>/ (the directory Spleeter
\* names after the trimmed file; its four files are written together).
TrimmedFileOf(snippet_id) == <<"trimmed", snippet_id>>
StemDirOf(snippet_id) == <<"stems", snippet_id>>
ArtifactPaths ==
    {TrimmedFileOf(id) : id \in SnippetIds}
    \cup {StemDirOf(id) : id \in SnippetIds}

\* A path holds the audio of the range of invocation 1 or 2, or no file.
Absent == 0

NoCall ==
    [pc |-> "idle", snippet_id |-> "", cleanup_after |-> FALSE,
     tracked |-> FALSE, success |-> FALSE, error |-> "", stems |-> <<>>]

ConcurrentIdle ==
    /\ calls = [i \in Invocations |-> NoCall]
    /\ shared_disk = [path \in ArtifactPaths |-> Absent]

ConcurrentInit ==
    /\ \E flags \in [Invocations -> BOOLEAN] :
          calls = [i \in Invocations |->
                      [NoCall EXCEPT !.pc = "start",
                                     !.cleanup_after = flags[i]]]
    /\ shared_disk = [path \in ArtifactPaths |-> Absent]

\* Steps 1 and 2 up to the choice of trimmed_path.
Enter(i) ==
    /\ calls[i].pc = "start"
    /\ \E id \in SnippetIds :
          calls' = [calls EXCEPT ![i].snippet_id = id, ![i].pc = "trim"]
    /\ UNCHANGED shared_disk
    /\ ConcurrentOnly

\* trim_audio exports the range of the invocation to trimmed_path, over
\* whatever is there; temp_files.append(trimmed_path).
TrimShared(i) ==
    /\ calls[i].pc = "trim"
    /\ shared_disk' =
          [shared_disk EXCEPT ![TrimmedFileOf(calls[i].snippet_id)] = i]
    /\ calls' = [calls EXCEPT ![i].tracked = TRUE, ![i].pc = "trimmed_info"]
    /\ ConcurrentOnly

\* The outer `except Exception` of invocation i: the tracked file is removed
\* with cleanup_after.
DiskAfterError(i) ==
    IF calls[i].cleanup_after /\ calls[i].tracked
    THEN [shared_disk EXCEPT ![TrimmedFileOf(calls[i].snippet_id)] = Absent]
    ELSE shared_disk

\* get_audio_info(trimmed_path) raises when the file is not there.
TrimmedInfoShared(i) ==
    /\ calls[i].pc = "trimmed_info"
    /\ IF shared_disk[TrimmedFileOf(calls[i].snippet_id)] = Absent
       THEN /\ calls' = [calls EXCEPT ![i].pc = "done",
                                       ![i].error = "Processing error"]
            /\ shared_disk' = DiskAfterError(i)
       ELSE /\ calls' = [calls EXCEPT ![i].pc = "separate"]
            /\ UNCHANGED shared_disk
    /\ ConcurrentOnly

\* separate_stems(trimmed_path, stems_dir): FileNotFoundError without the
\* file; else the stems of the audio found in it are written to stem_dir.
\* Without cleanup_after the function goes on to its return statement.
SeparateShared(i) ==
    /\ calls[i].pc = "separate"
    /\ LET id == calls[i].snippet_id
           found == shared_disk[TrimmedFileOf(id)]
       IN  IF found = Absent
           THEN /\ calls' = [calls EXCEPT ![i].pc = "done",
                                           ![i].error = "Stem separation failed"]
                /\ UNCHANGED shared_disk
           ELSE /\ shared_disk' = [shared_disk EXCEPT ![StemDirOf(id)] = found]
                /\ calls' =
                      [calls EXCEPT
                          ![i].stems = StemDirOf(id),
                          ![i].success = ~calls[i].cleanup_after,
                          ![i].pc = IF calls[i].cleanup_after THEN "cleanup"
                                    ELSE "done"]
    /\ ConcurrentOnly

\* Step 5 with cleanup_after: os.remove(trimmed_path) if it exists, then the
\* success result.
CleanupShared(i) ==
    /\ calls[i].pc = "cleanup"
    /\ shared_disk' =
          [shared_disk EXCEPT ![TrimmedFileOf(calls[i].snippet_id)] = Absent]
    /\ calls' = [calls EXCEPT ![i].success = TRUE, ![i].pc = "done"]
    /\ ConcurrentOnly

ConcurrentNext ==
    \/ \E i \in Invocations : Enter(i)
    \/ \E i \in Invocations : TrimShared(i)
    \/ \E i \in Invocations : TrimmedInfoShared(i)
    \/ \E i \in Invocations : SeparateShared(i)
    \/ \E i \in Invocations : CleanupShared(i)

-----------------------------------------------------------------------------
(* The specifications. *)

Idle(used) ==
    /\ used = "classifier" \/ ClassifierIdle
    /\ used = "onset" \/ OnsetIdle
    /\ used = "analysis" \/ AnalysisIdle
    /\ used = "peaks" \/ PeakIdle
    /\ used = "trim" \/ TrimIdle
    /\ used = "stems" \/ StemsIdle
    /\ used = "service" \/ ServiceIdle
    /\ used = "concurrent" \/ ConcurrentIdle

\* One invocation of process_audio_snippet.
Init == ServiceInit /\ Idle("service")
Next == ServiceNext
Spec == Init /\ [][Next]_vars

\* The same invocation, run to its end: the interpreter goes on executing
\* the function until it returns, and every collaborator call comes back,
\* with a value or with an exception.
LiveSpec == Init /\ [][Next]_vars /\ WF_vars(Next)

\* Calls of drum_classifier.py.
InitClassifier == ClassifierInit /\ Idle("classifier")
NextClassifier == ClassifierNext
SpecClassifier == InitClassifier /\ [][NextClassifier]_vars

\* Calls of filter_weak_onsets.
InitOnset == OnsetInit /\ Idle("onset")
NextOnset == OnsetNext
SpecOnset == InitOnset /\ [][NextOnset]_vars

\* Calls of detect_onsets and analyze_drum_pattern.
\* One call of a detector on a file that loads.
InitPeaks == PeakInit /\ Idle("peaks")
NextPeaks == PeakNext
SpecPeaks == InitPeaks /\ [][NextPeaks]_vars

InitAnalysis == AnalysisInit /\ Idle("analysis")
NextAnalysis == AnalysisNext
SpecAnalysis == InitAnalysis /\ [][NextAnalysis]_vars

\* Calls of trim_audio.
InitTrim == TrimInit /\ Idle("trim")
NextTrim == TrimNext
SpecTrim == InitTrim /\ [][NextTrim]_vars

\* Calls of separate_stems.
InitStems == StemsInit /\ Idle("stems")
NextStems == StemsNext
SpecStems == InitStems /\ [][NextStems]_vars

\* Two invocations of process_audio_snippet at once.
InitConcurrent == ConcurrentInit /\ Idle("concurrent")
NextConcurrent == ConcurrentNext
SpecConcurrent == InitConcurrent /\ [][NextConcurrent]_vars

-----------------------------------------------------------------------------
(* The claims. *)

\* The note numbers the claims name.
NoteOf == [kick |-> 36, snare |-> 38, hihat |-> 42]
Notes == {36, 38, 42}

\* The window classify_drum_pattern hands to the analysis for the onset time t.
WindowAt(t) ==
    HitWindow(audio.y, OnsetSample(t, audio.sr), WindowSize)

ClassifiedPattern ==
    classifier_call = "classify_drum_pattern" /\ classifier_raised = "none"

\* C1: classify_drum_pattern on a readable buffer returns, and puts every
\* onset time into exactly one of the buckets kick, snare, hihat: the three
\* lengths add up to len(onset_times) and every time occurs in the buckets as
\* often as in the input, the onsets classified by the fallback included.
C1_EveryOnsetInOneBucket ==
    (classifier_call = "classify_drum_pattern"
        /\ audio.exists /\ audio.loadable) =>
      /\ classifier_raised = "none"
      /\ Len(drum_pattern.kick) + Len(drum_pattern.snare)
            + Len(drum_pattern.hihat) = Len(onset_times)
      /\ \A t \in OnsetTimes :
            Count(drum_pattern.kick, t) + Count(drum_pattern.snare, t)
                + Count(drum_pattern.hihat, t) = Count(onset_times, t)

\* Two onsets were classified, one of them by the fallback (its window is
\* empty), and two buckets are in use.
C1_Witness ==
    /\ ClassifiedPattern
    /\ Len(onset_times) >= 2
    /\ \E i \in DOMAIN onset_times : Len(WindowAt(onset_times[i])) = 0
    /\ Len(drum_pattern.kick) >= 1
    /\ Len(drum_pattern.snare) >= 1

HitEnergies ==
    Energies(HitWindow(audio.y, hit.onset_sample, WindowSize))

ClassifiedHit ==
    /\ classifier_call = "classify_drum_hit"
    /\ Len(HitWindow(audio.y, hit.onset_sample, WindowSize)) > 0

\* C2: on a window whose band sums were computed, classify_drum_hit returns
\* a class whose sum is the largest, and every class before it in the order
\* kick, snare, hihat has a strictly smaller sum; a window whose three sums
\* are zero is a kick.
C2_LargestBandFirstOnTie ==
    ClassifiedHit =>
      /\ \E k \in DOMAIN DrumTypes :
            /\ hit.drum_type = DrumTypes[k]
            /\ \A j \in DOMAIN DrumTypes :
                  HitEnergies[DrumTypes[j]] <= HitEnergies[hit.drum_type]
            /\ \A j \in 1..(k - 1) :
                  HitEnergies[DrumTypes[j]] < HitEnergies[hit.drum_type]
      /\ (\A j \in DOMAIN DrumTypes : HitEnergies[DrumTypes[j]] = 0)
            => hit.drum_type = "kick"

\* A tie for the maximum between snare and hihat, above kick.
C2_Witness ==
    /\ ClassifiedHit
    /\ HitEnergies.snare = HitEnergies.hihat
    /\ HitEnergies.snare > HitEnergies.kick
    /\ hit.drum_type = "snare"

\* The class classify_drum_pattern gives to the onset time t.
ClassAt(t) ==
    classify_drum_hit(audio.y, audio.sr, OnsetSample(t, audio.sr), WindowSize)

ReturnedMidiPattern ==
    classifier_call = "get_drum_midi_pattern" /\ classifier_raised = "none"

\* C3: get_drum_midi_pattern returns one (time, note) pair per onset, the
\* note being 36, 38 or 42: the number of the class the onset was classified
\* as; the pairs are in ascending order of time.
C3_OnePairPerOnsetSorted ==
    ReturnedMidiPattern =>
      /\ Len(midi_pattern) = Len(onset_times)
      /\ \A i \in DOMAIN midi_pattern : midi_pattern[i][2] \in Notes
      /\ \A t \in OnsetTimes : \A note \in Notes :
            Count(midi_pattern, <<t, note>>) =
                IF note = NoteOf[ClassAt(t)]
                THEN Count(onset_times, t) ELSE 0
      /\ \A i \in DOMAIN midi_pattern : \A j \in DOMAIN midi_pattern :
            i < j => midi_pattern[i][1] <= midi_pattern[j][1]

\* Two onsets of different classes, and the list as built is not sorted.
C3_Witness ==
    /\ ReturnedMidiPattern
    /\ Len(midi_pattern) >= 2
    /\ midi_pattern[1][2] # midi_pattern[2][2]
    /\ Expand(ClassifyFrom(audio.y, audio.sr, onset_times, 1, EmptyPattern))
          # midi_pattern

\* The indices of the events filter_weak_onsets has to keep.
StrongEnough ==
    {i \in DOMAIN onsets_with_strength :
        onsets_with_strength[i].items[2] >= min_strength}

\* The j-th smallest element of a set of indices.
NthOf(indices, j) ==
    CHOOSE i \in indices : Cardinality({k \in indices : k <= i}) = j

\* C4: filter_weak_onsets returns the times of exactly the events whose
\* strength is >= min_strength, in their original order: an event of exactly
\* min_strength is kept, a weaker one is dropped.
C4_KeepsStrengthAtLeastMin ==
    onset_call = "filter_weak_onsets" =>
      /\ onset_raised = "none"
      /\ Len(filtered) = Cardinality(StrongEnough)
      /\ \A j \in DOMAIN filtered :
            filtered[j] =
                PyFloat(onsets_with_strength[NthOf(StrongEnough, j)].items[1])

\* An event of exactly min_strength was kept and a weaker one before it was
\* dropped.
C4_Witness ==
    /\ onset_call = "filter_weak_onsets"
    /\ Len(onsets_with_strength) = 2
    /\ onsets_with_strength[1].items[2] < min_strength
    /\ onsets_with_strength[2].items[2] = min_strength
    /\ filtered = <<PyFloat(onsets_with_strength[2].items[1])>>

\* C5, as stated: filter_weak_onsets(events, 0) returns exactly `events`,
\* and applied to its own output it returns the same once more.
C5_ReturnsEventsUnchanged ==
    /\ (onset_call = "filter_weak_onsets" /\ min_strength = 0)
          => filtered = onsets_with_strength
    /\ (onset_call = "filter_weak_onsets_again" /\ min_strength = 0)
          => (onset_raised = "none" /\ filtered = onsets_with_strength)

\* C5, amended: filter_weak_onsets(events, 0) removes and reorders nothing,
\* and returns of every event its time alone: the i-th element of the output
\* is the bare time of the i-th event.  The output holds no strengths, and
\* passing a non-empty output to filter_weak_onsets again is a TypeError.
C5_ReturnsEveryTimeInOrder ==
    /\ (onset_call = "filter_weak_onsets" /\ min_strength = 0) =>
          /\ onset_raised = "none"
          /\ Len(filtered) = Len(onsets_with_strength)
          /\ \A i \in DOMAIN filtered :
                filtered[i] = PyFloat(onsets_with_strength[i].items[1])
    /\ (onset_call = "filter_weak_onsets_again" /\ min_strength = 0) =>
          onset_raised =
              IF onsets_with_strength = <<>> THEN "none" ELSE "TypeError"

\* Two events, one of strength 0, went through the filter at threshold 0.
C5_Witness ==
    /\ onset_call = "filter_weak_onsets"
    /\ min_strength = 0
    /\ Len(onsets_with_strength) = 2
    /\ onsets_with_strength[1].items[2] = 0
    /\ onsets_with_strength[1].items[1] > onsets_with_strength[2].items[1]
    /\ Len(filtered) = 2

\* The range checks trim_audio makes before it decodes the source.
BadRange(start, end) ==
    \/ start < 0
    \/ end <= start
    \/ end - start < 15
    \/ end - start > 90

RangeMessages ==
    {"Start time cannot be negative",
     "End time must be greater than start time",
     "Duration too short", "Duration too long"}

\* C6: on an existing source trim_audio raises ValueError whenever
\* start < 0, end <= start, end - start < 15 or end - start > 90, before the
\* source is decoded and without an output file; a range with start >= 0 and
\* a span from 15 to 90 seconds, both included, passes these checks.
C6_BadRangeIsValueError ==
    (trim_call = "trim_audio" /\ trim_args.source.exists) =>
      IF BadRange(trim_args.start, trim_args.end)
      THEN /\ trim_result.raised = "ValueError"
           /\ trim_result.reason \in RangeMessages
           /\ ~trim_result.decoded
           /\ ~trim_result.output_exists
      ELSE trim_result.reason \notin RangeMessages

\* A span of 10 seconds of a source that cannot even be decoded was rejected.
C6_Witness ==
    /\ trim_call = "trim_audio"
    /\ trim_args.source.exists
    /\ ~trim_args.source.decodable
    /\ trim_args.start = 0
    /\ trim_args.end = 10
    /\ trim_result.raised = "ValueError"

\* C7: with a valid range whose end lies beyond the duration of a source
\* that exists and decodes, in an environment that does not fail, trim_audio
\* raises ValueError and writes no output file.
C7_EndBeyondDurationIsValueError ==
    (/\ trim_call = "trim_audio"
     /\ trim_args.source.exists /\ trim_args.source.decodable
     /\ trim_args.fault = "none"
     /\ ~BadRange(trim_args.start, trim_args.end)
     /\ trim_args.end > trim_args.source.duration) =>
      /\ trim_result.raised = "ValueError"
      /\ ~trim_result.output_exists

\* The source is one validate_audio_file has to accept: it exists, has an
\* allowed extension and size, decodes and is not empty.
Acceptable(source) ==
    /\ source.exists
    /\ source.ext_ok
    /\ source.size_ok
    /\ source.decodable
    /\ source.duration > 0

\* The invocation returned, and validate_audio_file had accepted the source.
ReturnedAfterValidation ==
    /\ pc = "done"
    /\ Acceptable(request.source)
    /\ "validate" \notin faults

NoStemsNoMetadata ==
    /\ ~result.success
    /\ result.stem_paths = EmptyDict
    /\ result.metadata = EmptyDict
    /\ "separate" \notin {stages[i] : i \in DOMAIN stages}

\* C8, as stated: for a source that passes validation, a range with
\* start < 0, start >= end, a span under 15 or over 90 seconds ends in a
\* "Trimming failed" result without stems or metadata, separation not invoked.
C8_BadRangeIsTrimmingFailed ==
    (ReturnedAfterValidation /\ BadRange(request.start, request.end)) =>
      /\ NoStemsNoMetadata
      /\ result.error # NoError
      /\ result.error[1] = "Trimming failed"

\* C8, amended: for a source that passes validation, such a range ends in a
\* failure result without stems or metadata, separation not invoked; the
\* result is "Trimming failed" when get_audio_info and the creation of the
\* trimmed directory, which come before trim_audio, succeed, and
\* "Processing error" when one of them raises.
C8_BadRangeFailsAtTrimOrBefore ==
    (ReturnedAfterValidation /\ BadRange(request.start, request.end)) =>
      /\ NoStemsNoMetadata
      /\ result.error # NoError
      /\ result.error[1] =
            IF faults = {} THEN "Trimming failed" ELSE "Processing error"
      /\ faults \subseteq {"original_info", "makedirs_trimmed"}
      /\ (faults = {}) = (stages = <<"validate", "trim">>)

\* A request for start 5 and end 0 on a good source was refused by trim_audio.
C8_Witness ==
    /\ ReturnedAfterValidation
    /\ request.start > request.end
    /\ stages = <<"validate", "trim">>
    /\ result.error = <<"Trimming failed",
                        "End time must be greater than start time">>

\* C9: for a source that passes validation, a valid range whose end lies
\* beyond the duration of the source ends, in an environment that does not
\* fail, in a "Trimming failed" result.
C9_EndBeyondDurationIsTrimmingFailed ==
    (/\ ReturnedAfterValidation
     /\ ~BadRange(request.start, request.end)
     /\ request.end > request.source.duration
     /\ faults = {}) =>
      /\ result.error # NoError
      /\ result.error[1] = "Trimming failed"

\* C10: when validate_audio_file reports a source that is missing, has a
\* wrong extension, is too large, cannot be decoded or is empty, the
\* invocation returns "Validation failed" and no other stage was invoked:
\* nothing was trimmed, separated, built or cleaned up, and the disk is as it
\* was.
C10_InvalidSourceStopsAtValidate ==
    (pc = "done" /\ ~Acceptable(request.source) /\ "validate" \notin faults) =>
      /\ ~result.success
      /\ result.error # NoError
      /\ result.error[1] = "Validation failed"
      /\ stages = <<"validate">>
      /\ temp_files = <<>>
      /\ result.stem_paths = EmptyDict
      /\ result.metadata = EmptyDict
      /\ disk = (IF request.source.exists THEN {SourcePath} ELSE {})
                   \cup OtherFiles

\* A source that exists but cannot be decoded was turned down.
C10_Witness ==
    /\ pc = "done"
    /\ request.source.exists
    /\ ~request.source.decodable
    /\ request.extract_stems
    /\ request.cleanup_after
    /\ result.error = <<"Validation failed", "Invalid audio file">>

\* The invocation returned a failure whose text starts with `prefix`.
FailedWith(prefix) ==
    /\ pc = "done"
    /\ ~result.success
    /\ result.error # NoError
    /\ result.error[1] = prefix

\* C11: when process_audio_snippet with cleanup_after=True returns its
\* "Stem separation failed" result, the trimmed file written by the
\* invocation no longer exists.
C11_SeparationFailureRemovesTrimmedFile ==
    (FailedWith("Stem separation failed") /\ request.cleanup_after)
        => TrimmedPath \notin disk

\* The failures of the environment that no stage-specific handler takes.
UnhandledFaults ==
    {"validate", "original_info", "makedirs_trimmed", "decode", "makedirs",
     "export", "trimmed_info", "makedirs_stems"}

TrackedFilesGone == \A i \in DOMAIN temp_files : temp_files[i] \notin disk

\* C12 as stated: whenever an error reaches the outer handler, every tracked
\* temp file is removed (unless os.remove itself failed) and a "Processing
\* error" result is returned.
C12_UncaughtErrorRemovesTrackedFiles ==
    (pc = "done" /\ faults \cap UnhandledFaults # {})
        => /\ FailedWith("Processing error")
           /\ "remove" \notin faults => TrackedFilesGone

\* What holds of a returned invocation in which a collaborator failed outside
\* the stage-specific handlers.
UncaughtIsProcessingError ==
    (pc = "done" /\ faults \cap UnhandledFaults # {})
        => /\ FailedWith("Processing error")
           /\ (request.cleanup_after /\ "remove" \notin faults)
                 => TrackedFilesGone

\* C12, amended: every invocation of process_audio_snippet returns a result;
\* an error that no stage-specific handler takes gives a "Processing error"
\* result, and with cleanup_after=True every tracked temp file is removed
\* unless os.remove failed.
C12_AlwaysReturnsAndCleansWhenAsked ==
    /\ <>(pc = "done")
    /\ [](pc # "raised")
    /\ []UncaughtIsProcessingError

C12_Witness ==
    /\ FailedWith("Processing error")
    /\ "trimmed_info" \in faults
    /\ request.cleanup_after
    /\ temp_files = <<TrimmedPath>>
    /\ TrimmedPath \notin disk
    /\ SourcePath \in disk

\* The stem mapping and the metadata of a successful invocation of the
\* request, as the claims describe them.
ExpectedStems ==
    IF request.extract_stems
    THEN [drums |-> "stems/snippet_id/drums.wav",
          bass |-> "stems/snippet_id/bass.wav",
          vocals |-> "stems/snippet_id/vocals.wav",
          other |-> "stems/snippet_id/other.wav"]
    ELSE EmptyDict
ExpectedMetadata ==
    [snippet_id |-> "snippet_id",
     original_duration_seconds |-> request.source.duration,
     snippet_duration_seconds |-> request.end - request.start,
     start_time |-> request.start,
     end_time |-> request.end,
     stems_extracted |-> request.extract_stems,
     num_stems |-> IF request.extract_stems THEN 4 ELSE 0]

\* The success-path Cleanup stage ran and the invocation returned.
ReturnedAfterCleanup ==
    /\ pc = "done"
    /\ stages # <<>>
    /\ stages[Len(stages)] = "cleanup"

\* C13: an invocation that got to its Cleanup stage returns success=True with
\* the stem paths and the metadata of the request, also when deleting the
\* trimmed file failed.
C13_FailedRemovalKeepsSuccess ==
    ReturnedAfterCleanup
        => result = [success |-> TRUE, stem_paths |-> ExpectedStems,
                     metadata |-> ExpectedMetadata, error |-> NoError]

C13_Witness ==
    /\ ReturnedAfterCleanup
    /\ "remove" \in faults
    /\ TrimmedPath \in disk
    /\ result.success
    /\ request.extract_stems

\* The texts a failure result starts with, one per stage handler.
FailureReasons ==
    {"Validation failed", "Trimming failed", "Stem separation failed",
     "Processing error"}

PopulatedSuccess ==
    /\ result.success
    /\ result.error = NoError
    /\ result.metadata # EmptyDict
    /\ DOMAIN result.metadata # {}

PureFailure ==
    /\ ~result.success
    /\ result.error # NoError
    /\ result.error[1] \in FailureReasons
    /\ result.stem_paths = EmptyDict
    /\ result.metadata = EmptyDict

\* C14: every result process_audio_snippet returns is either a populated
\* success (success=True, no error, metadata filled in) or a pure failure
\* (success=False, a reason naming the failed stage, no stems, no metadata).
C14_SuccessOrPureFailure ==
    pc = "done" => (PopulatedSuccess \/ PureFailure)

C14_Witness ==
    /\ pc = "done"
    /\ PureFailure
    /\ result.error[1] = "Stem separation failed"
    /\ \E name \in StemNames : StemFile[name] \in disk

\* The place of a stage in Validate, Trim, Separate, BuildMetadata, Cleanup.
StageRank ==
    [validate |-> 1, trim |-> 2, separate |-> 3, metadata |-> 4,
     cleanup |-> 5]

Entered(stage) == \E i \in DOMAIN stages : stages[i] = stage

\* The range is one trim_audio accepts for the source.
RangeFits ==
    /\ ~BadRange(request.start, request.end)
    /\ request.end <= request.source.duration

\* C15: the stages of an invocation occur in the order Validate, Trim,
\* Separate, BuildMetadata, Cleanup, each at most once; Trim only after a
\* successful Validate, Separate only after a successful Trim and with
\* extract_stems, the metadata only after the requested earlier stages
\* succeeded, the success-path Cleanup only after the metadata and with
\* cleanup_after.
C15_StagesInOrderAtMostOnce ==
    /\ \A i, j \in DOMAIN stages :
          i < j => StageRank[stages[i]] < StageRank[stages[j]]
    /\ Entered("trim") =>
          /\ Entered("validate")
          /\ Acceptable(request.source)
    /\ Entered("separate") =>
          /\ Entered("trim")
          /\ RangeFits
          /\ temp_files = <<TrimmedPath>>
          /\ request.extract_stems
    /\ Entered("metadata") =>
          /\ Entered("trim")
          /\ RangeFits
          /\ temp_files = <<TrimmedPath>>
          /\ request.extract_stems = Entered("separate")
          /\ request.extract_stems => DOMAIN stem_paths = StemNames
    /\ Entered("cleanup") =>
          /\ Entered("metadata")
          /\ metadata # EmptyDict
          /\ request.cleanup_after

C15_Witness ==
    /\ pc = "done"
    /\ stages = <<"validate", "trim", "separate", "metadata", "cleanup">>
    /\ result.success

\* C17: a success returned for extract_stems=True maps drums, bass, vocals
\* and other to files that exist when the result is returned, with
\* cleanup_after=True as well (get_drum_pattern is the call with both flags
\* True).
C17_ReturnedStemsExist ==
    (pc = "done" /\ result.success /\ request.extract_stems)
        => /\ DOMAIN result.stem_paths = {"drums", "bass", "vocals", "other"}
           /\ \A name \in DOMAIN result.stem_paths :
                 result.stem_paths[name] \in disk

C17_Witness ==
    /\ pc = "done"
    /\ result.success
    /\ request.extract_stems
    /\ request.cleanup_after
    /\ Entered("cleanup")
    /\ TrimmedPath \notin disk
    /\ result.stem_paths["drums"] \in disk

\* C18: separate_stems returns a mapping only if each of the four files
\* exists and is non-empty; with a stem file absent or empty after the
\* separator ran it raises instead.
C18_ReturnedStemsExistAndAreNonEmpty ==
    (stems_call = "separate_stems" /\ stems_result.raised = "none")
        => /\ DOMAIN stems_result.value = StemNames
           /\ \A name \in StemNames :
                 /\ name \in stems_args.run.produced
                 /\ name \notin stems_args.run.empty

\* What invocation i returns when it runs alone: success, with stems of its
\* own range in its stem directory.
ReturnsAsAlone(i) ==
    /\ calls[i].success
    /\ calls[i].error = ""
    /\ calls[i].stems = StemDirOf(calls[i].snippet_id)
    /\ shared_disk[calls[i].stems] = i

\* C16: two invocations of process_audio_snippet running at once use
\* disjoint artifact paths, so each returns what it returns alone and its
\* returned stems are never overwritten by the other.
C16_ConcurrentInvocationsAreIsolated ==
    \A i \in Invocations : calls[i].pc = "done" => ReturnsAsAlone(i)

\* analyze_drum_pattern was called and returned its dictionary.
AnalysisReturned ==
    /\ analysis_call = "analyze_drum_pattern"
    /\ analysis_result.raised = "none"

\* Nothing the analysis depends on fails.
AnalysisEnvFine ==
    /\ analysis_env.exists
    /\ analysis_env.librosa
    /\ analysis_env.load = "ok"
    /\ analysis_env.detect = "ok"
    /\ analysis_env.tempo = "ok"

\* C19: analyze_drum_pattern returns num_hits = len(onset_times) and
\* hit_density = num_hits / duration; for a duration of 0 it returns
\* hit_density = 0 and raises no division error.
C19_HitDensityIsHitsPerSecond ==
    /\ AnalysisReturned =>
          LET r == analysis_result.value
          IN  /\ r.num_hits = Len(r.onset_times)
              /\ r.num_hits = analysis_env.hits
              /\ r.duration_seconds.num * analysis_env.sr
                    = analysis_env.samples * r.duration_seconds.den
              /\ IF analysis_env.samples = 0
                 THEN r.hit_density.num = 0
                 ELSE r.hit_density.num * r.duration_seconds.num
                         = r.num_hits * r.duration_seconds.den
                              * r.hit_density.den
    /\ (analysis_call = "analyze_drum_pattern" /\ AnalysisEnvFine)
          => analysis_result.raised = "none"

C19_Witness ==
    /\ AnalysisReturned
    /\ analysis_env.samples = 0
    /\ analysis_result.value.duration_seconds.num = 0
    /\ analysis_result.value.hit_density.num = 0
    /\ analysis_result.value.num_hits = 0

\* The audio source cannot be read although a file is there.
Unreadable ==
    /\ analysis_env.exists
    /\ analysis_env.load \in {"PermissionError", "NoBackendError"}

DetectCalled == analysis_call = "detect_onsets"

\* C20 as stated: detect_onsets fails with FileNotFoundError for a missing
\* or unreadable source, with ImportError when librosa is absent, with
\* RuntimeError for any other failure, and with nothing else.
C20_MissingOrUnreadableIsNotFound ==
    DetectCalled =>
       /\ analysis_result.raised
             \in {"none", "FileNotFoundError", "ImportError", "RuntimeError"}
       /\ ~analysis_env.exists
             => analysis_result.raised = "FileNotFoundError"
       /\ (Unreadable /\ analysis_env.librosa)
             => analysis_result.raised = "FileNotFoundError"
       /\ (analysis_env.exists /\ ~analysis_env.librosa)
             => analysis_result.raised = "ImportError"

\* C20, amended: detect_onsets fails with FileNotFoundError exactly when no
\* file is at audio_path on entry, with ImportError when the file is there
\* and librosa cannot be imported, and with RuntimeError for every other
\* failure, a file that cannot be read or decoded included; otherwise it
\* returns the onset times.
C20_FailureCausesOfDetectOnsets ==
    DetectCalled =>
       analysis_result =
          IF ~analysis_env.exists
          THEN [raised |-> "FileNotFoundError", value |-> <<>>]
          ELSE IF ~analysis_env.librosa
          THEN [raised |-> "ImportError", value |-> <<>>]
          ELSE IF analysis_env.load # "ok" \/ analysis_env.detect # "ok"
          THEN [raised |-> "RuntimeError", value |-> <<>>]
          ELSE [raised |-> "none",
                value |-> [k \in 1..analysis_env.hits |-> k]]

C20_Witness ==
    /\ DetectCalled
    /\ Unreadable
    /\ analysis_env.librosa
    /\ analysis_result.raised = "RuntimeError"

\* Whether `bucket` is `list` with some elements left out, the order kept.
IsSubsequence(bucket, list) ==
    \E f \in [DOMAIN bucket -> DOMAIN list] :
        /\ \A i, j \in DOMAIN bucket : i < j => f[i] < f[j]
        /\ \A i \in DOMAIN bucket : list[f[i]] = bucket[i]

NonDecreasing(list) ==
    \A i, j \in DOMAIN list : i < j => list[i] <= list[j]

\* C23: every bucket classify_drum_pattern returns is a subsequence of the
\* input onset list, so the buckets of a non-decreasing input are
\* non-decreasing.
C23_BucketsAreSubsequences ==
    ClassifiedPattern =>
      /\ \A k \in DOMAIN DrumTypes :
            IsSubsequence(drum_pattern[DrumTypes[k]], onset_times)
      /\ NonDecreasing(onset_times) =>
            \A k \in DOMAIN DrumTypes :
               NonDecreasing(drum_pattern[DrumTypes[k]])

\* Two onsets at different times, in ascending order, fell into one bucket.
C23_Witness ==
    /\ ClassifiedPattern
    /\ NonDecreasing(onset_times)
    /\ \E k \in DOMAIN DrumTypes :
          /\ Len(drum_pattern[DrumTypes[k]]) = 2
          /\ drum_pattern[DrumTypes[k]][1] < drum_pattern[DrumTypes[k]][2]

\* The class of the hit at sample index n of the buffer.
ClassAtSample(n) == classify_drum_hit(audio.y, audio.sr, n, WindowSize)

\* t * sr for the onset time of t / TimeDen seconds, as a whole number of
\* samples: the nearest one (a half goes up), and the one below.
NearestSample(t) == (2 * t * audio.sr + TimeDen) \div (2 * TimeDen)
SampleBelow(t) == (t * audio.sr) \div TimeDen

\* Every onset time is in the bucket of the class found at sample_of(t).
BucketsFollow(sample_of) ==
    \A t \in OnsetTimes : \A k \in DOMAIN DrumTypes :
        Count(drum_pattern[DrumTypes[k]], t) =
            IF DrumTypes[k] = ClassAtSample(sample_of[t])
            THEN Count(onset_times, t) ELSE 0

\* C24 as stated: classify_drum_pattern classifies the onset time t at the
\* sample index round(t * sr), the nearest integer sample.
C24_ClassifiesAtNearestSample ==
    ClassifiedPattern => BucketsFollow([t \in OnsetTimes |-> NearestSample(t)])

\* C24, amended: classify_drum_pattern classifies the onset time t >= 0 at
\* the sample index int(t * sr), the product with its fractional part cut
\* off; a fractional part >= 0.5 does not lead to the next sample.
C24_ClassifiesAtTruncatedSample ==
    ClassifiedPattern => BucketsFollow([t \in OnsetTimes |-> SampleBelow(t)])

\* An onset whose product t * sr has the fractional part 0.5, and the class
\* at the nearest sample is not the class at the sample below.
C24_Witness ==
    /\ ClassifiedPattern
    /\ \E i \in DOMAIN onset_times :
          LET t == onset_times[i]
          IN  /\ (2 * t * audio.sr) % (2 * TimeDen) = TimeDen
              /\ NearestSample(t) = SampleBelow(t) + 1
              /\ ClassAtSample(NearestSample(t)) # ClassAtSample(SampleBelow(t))
              /\ Count(drum_pattern[ClassAtSample(SampleBelow(t))], t) > 0

\* The window around the index of the hit starts at or after the end of the
\* buffer: the index lies at least half a window past it.
PastTheEnd == hit.onset_sample - WindowSize \div 2 >= Len(audio.y)

\* C25: classify_drum_hit raises nothing and returns kick, snare or hihat
\* for every buffer and every sample index; when the clamped window is empty
\* it returns snare.
C25_AlwaysReturnsADrumType ==
    classifier_call = "classify_drum_hit" =>
      /\ hit.drum_type \in {"kick", "snare", "hihat"}
      /\ PastTheEnd => hit.drum_type = "snare"
      /\ Len(HitWindow(audio.y, hit.onset_sample, WindowSize)) = 0
            => hit.drum_type = "snare"

C25_Witness ==
    /\ classifier_call = "classify_drum_hit"
    /\ PastTheEnd
    /\ \A i \in DOMAIN audio.y : audio.y[i] = "kick"
    /\ hit.drum_type = "snare"

\* C29: in the list get_drum_midi_pattern returns, two pairs of equal time
\* carry the same note number, the note of the class found at that time, so
\* no two different classes ever meet at one time in the sort.
C29_EqualTimesCarryEqualNotes ==
    ReturnedMidiPattern =>
      \A i, j \in DOMAIN midi_pattern :
         midi_pattern[i][1] = midi_pattern[j][1] =>
            /\ midi_pattern[i][2] = midi_pattern[j][2]
            /\ midi_pattern[i][2] = NoteOf[ClassAt(midi_pattern[i][1])]

\* The input names one time twice.
C29_Witness ==
    /\ ReturnedMidiPattern
    /\ Len(midi_pattern) = 2
    /\ onset_times[1] = onset_times[2]
    /\ midi_pattern[1] = midi_pattern[2]

\* C30: the metadata of every success result satisfies the constraints of
\* the trim and matches the request: 0 <= start_time < end_time,
\* 15 <= end_time - start_time <= 90, end_time <= original_duration_seconds,
\* stems_extracted is the extract_stems argument, num_stems is 4 with stems
\* and 0 without.
C30_SuccessMetadataFitsTheTrim ==
    (pc = "done" /\ result.success) =>
       LET m == result.metadata
       IN  /\ m.start_time = request.start
           /\ m.end_time = request.end
           /\ 0 <= m.start_time
           /\ m.start_time < m.end_time
           /\ 15 <= m.end_time - m.start_time
           /\ m.end_time - m.start_time <= 90
           /\ m.end_time <= m.original_duration_seconds
           /\ m.stems_extracted = request.extract_stems
           /\ m.num_stems = IF request.extract_stems THEN 4 ELSE 0
           /\ m.num_stems = Cardinality(DOMAIN result.stem_paths)

\* A snippet of exactly 90 seconds, with stems.
C30_Witness ==
    /\ pc = "done"
    /\ result.success
    /\ result.metadata.end_time - result.metadata.start_time = 90
    /\ result.metadata.start_time > 0
    /\ result.metadata.num_stems = 4

C21Raw ==
    [k \in DOMAIN StrengthOnsetFrames(peak_args) |->
        peak_args.onset_env[StrengthOnsetFrames(peak_args)[k]]]
C21Max == Highest(EnvRange(C21Raw))
FractionLeq(a, b) == a.num * b.den <= b.num * a.den
StrengthReturned == peak_call = "detect_onsets_with_strength"

\* C21: in the list detect_onsets_with_strength returns every strength is
\* the raw strength over the highest raw strength of the run, so it lies in
\* [0, 1], one of them is 1 when that maximum is positive, and all are 0
\* when it is 0; the times are those of the detected frames, in order.
C21_StrengthsAreRawOverMaximum ==
    (StrengthReturned /\ Len(peak_result) > 0) =>
       /\ \A k \in DOMAIN peak_result :
             /\ peak_result[k][2].den > 0
             /\ 0 <= peak_result[k][2].num
             /\ peak_result[k][2].num <= peak_result[k][2].den
             /\ C21Max > 0 =>
                   peak_result[k][2].num * C21Max
                      = C21Raw[k] * peak_result[k][2].den
             /\ C21Max = 0 => peak_result[k][2].num = 0
             /\ peak_result[k][1].num * peak_args.sr
                   = StrengthOnsetFrames(peak_args)[k] * peak_args.hop_length
                        * peak_result[k][1].den
       /\ C21Max > 0 =>
             \E k \in DOMAIN peak_result :
                peak_result[k][2].num = peak_result[k][2].den
       /\ \A j, k \in DOMAIN peak_result :
             j <= k => FractionLeq(peak_result[j][1], peak_result[k][1])

\* Two onsets, the weaker of them at a strength between 0 and 1.
C21_Witness ==
    /\ StrengthReturned
    /\ Len(peak_result) >= 2
    /\ \E k \in DOMAIN peak_result :
          /\ peak_result[k][2].num > 0
          /\ peak_result[k][2].num < peak_result[k][2].den

C26Peaks == Ascending(PeakPick(peak_args.onset_env, LibrosaDelta))
C26_StrengthIsEnvelopeAtPeak ==
    (StrengthReturned /\ Len(peak_result) > 0) =>
       \A k \in DOMAIN peak_result :
          peak_result[k][2] =
             Fraction(peak_args.onset_env[C26Peaks[k]],
                      Highest({peak_args.onset_env[n] : n \in
                                  PeakPick(peak_args.onset_env, LibrosaDelta)}))

=============================================================================
